---- MODULE Spec2Model ----
(***************************************************************************)
(* Model of the two file-backed stores of the JMP enterprise management    *)
(* application: the BOPP rate store (src/lib/db.ts) and the user / OTP     *)
(* store (src/lib/actions/auth.ts).  Every store operation loads the whole *)
(* JSON file, changes the loaded copy and writes the whole file back.      *)
(***************************************************************************)
EXTENDS Integers, Sequences, FiniteSets, TLC

VARIABLES
    ratesFile,      \* data/bopp_rates.json: [exists, data]
    historyFile,    \* data/bopp_rate_history.json: [exists, data]
    usersFile,      \* data/users.json: [exists, data]
    now,            \* the wall clock, in ms
    ret,            \* the last call made and what it returned
    updates,        \* number of calls that wrote to a store so far
    calls           \* the calls that run step by step: where each one is
                    \* and what it holds in memory

vars == <<ratesFile, historyFile, usersFile, now, ret, updates, calls>>

(***************************************************************************)
(* Bounds of the model.                                                    *)
(***************************************************************************)
MaxUpdates == 2      \* updateBoppRates calls in a run of SpecRates
MaxRepeat == 52      \* updateBoppRates calls in a run of SpecCap
MaxUserWrites == 2   \* calls that save the users file in a run

(***************************************************************************)
(* JavaScript values.  A number is finite or NaN; JSON has no NaN, so      *)
(* JSON.stringify writes null for it and JSON.parse reads null back.       *)
(***************************************************************************)
Num(n) == [kind |-> "number", n |-> n]
NaN == [kind |-> "NaN", n |-> 0]
Null == [kind |-> "null", n |-> 0]

\* JSON.parse(JSON.stringify(v)) of a number-valued property
JSONNumber(v) == IF v.kind = "number" THEN v ELSE Null

\* parseFloat(v): a finite number reads back as itself, null gives NaN
parseFloat(v) == IF v.kind = "number" THEN v ELSE NaN

\* A Date in memory, its ISO-8601 string in a file (both to the millisecond)
Date(ms) == [kind |-> "Date", ms |-> ms]
toISOString(d) == [kind |-> "iso", ms |-> d.ms]
NewDate(s) == [kind |-> "Date", ms |-> s.ms]

Max(a, b) == IF a > b THEN a ELSE b
Min(a, b) == IF a < b THEN a ELSE b

\* Array.prototype.slice(0, n) for n >= 0
slice(s, n) == SubSeq(s, 1, Min(n, Len(s)))

NoFile == [exists |-> FALSE, data |-> <<>>]
FileOf(data) == [exists |-> TRUE, data |-> data]

(***************************************************************************)
(* Rate store: src/lib/db.ts                                               *)
(***************************************************************************)
Rate(id, key, value) == [id |-> id, key |-> key, value |-> value]

initialDefaultRates ==
    << Rate(1, "adhesive_less_rate", Num(80)),
       Rate(2, "adhesive_rate", Num(90)),
       Rate(3, "bopp_film_rate", Num(118)),
       Rate(4, "brown_tape", Num(105)),
       Rate(5, "coating_exp", Num(12)),
       Rate(6, "color_tape", Num(250)),
       Rate(7, "double_colour_printed", Num(225)),
       Rate(8, "four_colour_printed", Num(350)),
       Rate(9, "full_print", Num(1000)),
       Rate(10, "milky_white", Num(160)),
       Rate(11, "natural", Num(0)),
       Rate(12, "packing_cost", Num(60)),
       Rate(13, "profit", Num(10)),
       Rate(14, "single_colour_printed", Num(150)),
       Rate(15, "three_colour_printed", Num(300)),
       Rate(16, "transparent", Num(0)) >>

\* Date.now() when the module is loaded
ModuleLoadTime == 0
OneDayMs == 24 * 60 * 60 * 1000

initialMockRateHistory ==
    << [id |-> 1,
        changed_at |-> Date(ModuleLoadTime - 2 * OneDayMs),
        changed_by_id |-> "system-init",
        changed_by_name |-> "System Initialization",
        rates_snapshot |-> << Rate(3, "bopp_film_rate", Num(110)),
                              Rate(2, "adhesive_rate", Num(80)),
                              Rate(12, "packing_cost", Num(50)),
                              Rate(13, "profit", Num(7)) >>],
       [id |-> 2,
        changed_at |-> Date(ModuleLoadTime - 1 * OneDayMs),
        changed_by_id |-> "system-init",
        changed_by_name |-> "System Initialization",
        rates_snapshot |-> << Rate(3, "bopp_film_rate", Num(115)),
                              Rate(2, "adhesive_rate", Num(85)),
                              Rate(12, "packing_cost", Num(55)),
                              Rate(13, "profit", Num(8)) >>] >>

\* JSON.parse(JSON.stringify(rates)) of a list of rates
JSONRates(rates) ==
    [i \in DOMAIN rates |-> [rates[i] EXCEPT !.value = JSONNumber(@)]]

\* rates.reduce((max, rate) => Math.max(max, rate.id || 0), 0)
RECURSIVE MaxRateId(_)
MaxRateId(rates) ==
    IF rates = <<>> THEN 0
    ELSE LET rest == MaxRateId(Tail(rates))
         IN  IF Head(rates).id > rest THEN Head(rates).id ELSE rest

\* Map.get(key) !== undefined, for a Map held as its values in insertion order
MapHas(map, key) == \E i \in DOMAIN map : map[i].key = key
MapGet(map, key) == map[CHOOSE i \in DOMAIN map : map[i].key = key]

\* Map.set(rate.key, rate): an existing key keeps its place, a new one goes last
MapSet(map, rate) ==
    IF MapHas(map, rate.key)
    THEN [i \in DOMAIN map |-> IF map[i].key = rate.key THEN rate ELSE map[i]]
    ELSE Append(map, rate)

\* The forEach over ratesFromFile of loadRatesFromFile
RECURSIVE OverlayFrom(_, _, _)
OverlayFrom(map, maxId, ratesFromFile) ==
    IF ratesFromFile = <<>> THEN map
    ELSE LET r == Head(ratesFromFile)
             id == IF r.id = 0 THEN maxId + 1 ELSE r.id
             newMax == IF r.id = 0 THEN maxId + 1 ELSE Max(maxId, r.id)
         IN  OverlayFrom(MapSet(map, [r EXCEPT !.id = id]), newMax,
                         Tail(ratesFromFile))

\* loadRatesFromFile(): the rates returned and the file it leaves
loadRatesFromFile(file) ==
    IF file.exists
    THEN [rates |-> OverlayFrom(initialDefaultRates,
                                MaxRateId(initialDefaultRates), file.data),
          file |-> file]
    ELSE [rates |-> initialDefaultRates,
          file |-> FileOf(JSONRates(initialDefaultRates))]

saveRatesToFile(rates) == FileOf(JSONRates(rates))

\* JSON.stringify of a history list: dates become ISO strings
JSONHistory(history) ==
    [i \in DOMAIN history |->
        [history[i] EXCEPT !.changed_at = toISOString(@),
                           !.rates_snapshot = JSONRates(@)]]

\* loadHistoryFromFile(): the history returned and the file it leaves
loadHistoryFromFile(file) ==
    IF file.exists
    THEN [history |->
             [i \in DOMAIN file.data |->
                 [file.data[i] EXCEPT
                     !.changed_at = NewDate(@),
                     !.rates_snapshot =
                         [j \in DOMAIN @ |-> Rate(@[j].id, @[j].key,
                                                  parseFloat(@[j].value))]]],
          file |-> file]
    ELSE [history |->
             [i \in DOMAIN initialMockRateHistory |->
                 [initialMockRateHistory[i] EXCEPT
                     !.rates_snapshot = JSONRates(@)]],
          file |-> FileOf(JSONHistory(initialMockRateHistory))]

saveHistoryToFile(history) == FileOf(JSONHistory(history))

getBoppRates(file) == loadRatesFromFile(file)

\* Math.max(0, ...history.map(h => h.id || 0))
RECURSIVE MaxHistoryId(_)
MaxHistoryId(history) ==
    IF history = <<>> THEN 0
    ELSE LET rest == MaxHistoryId(Tail(history))
         IN  IF Head(history).id > rest THEN Head(history).id ELSE rest

\* As newHistoryId, counting the entries instead of taking the largest id
newHistoryId_fromLength(history) == Len(history) + 1

newHistoryId(history) ==
    IF Len(history) > 0 THEN MaxHistoryId(history) + 1 ELSE 1

\* history.unshift({id, changed_at: new Date(), ...}) of updateBoppRates
unshiftHistory(history, currentRatesInFile, userId, userName, t) ==
    << [id |-> newHistoryId(history),
        changed_at |-> Date(t),
        changed_by_id |-> userId,
        changed_by_name |-> userName,
        rates_snapshot |-> JSONRates(currentRatesInFile)] >> \o history

\* The forEach over newRatesFromForm of updateBoppRates
RECURSIVE MergeFrom(_, _, _)
MergeFrom(map, maxCurrentId, newRatesFromForm) ==
    IF newRatesFromForm = <<>> THEN map
    ELSE LET formRate == Head(newRatesFromForm)
         IN  IF MapHas(map, formRate.key)
             THEN MergeFrom(
                      MapSet(map, [MapGet(map, formRate.key)
                                      EXCEPT !.value = formRate.value]),
                      maxCurrentId, Tail(newRatesFromForm))
             ELSE IF formRate.id # 0
             THEN MergeFrom(
                      MapSet(map, Rate(formRate.id, formRate.key, formRate.value)),
                      maxCurrentId, Tail(newRatesFromForm))
             ELSE MergeFrom(
                      MapSet(map, Rate(maxCurrentId + 1, formRate.key,
                                       formRate.value)),
                      maxCurrentId + 1, Tail(newRatesFromForm))

\* As mergeFormRates, but every rate sent without an id gets the same new id
mergeFormRates_sameNewId(currentRatesInFile, newRatesFromForm) ==
    LET merged == MergeFrom(currentRatesInFile, MaxRateId(currentRatesInFile),
                            newRatesFromForm)
    IN  [i \in DOMAIN merged |->
            IF i > Len(currentRatesInFile)
               /\ \E j \in DOMAIN newRatesFromForm :
                      /\ newRatesFromForm[j].key = merged[i].key
                      /\ newRatesFromForm[j].id = 0
                      /\ \A k \in 1..(j - 1) :
                             newRatesFromForm[k].key # merged[i].key
            THEN [merged[i] EXCEPT !.id = MaxRateId(currentRatesInFile) + 1]
            ELSE merged[i]]

\* As mergeFormRates, starting from an empty map instead of the loaded rates
mergeFormRates_formOnly(currentRatesInFile, newRatesFromForm) ==
    MergeFrom(<<>>, MaxRateId(currentRatesInFile), newRatesFromForm)

\* As mergeFormRates, with a present rate replaced by the incoming rate, id
\* included when it carries one
mergeFormRates_takesFormId(currentRatesInFile, newRatesFromForm) ==
    LET merged == MergeFrom(currentRatesInFile, MaxRateId(currentRatesInFile),
                            newRatesFromForm)
    IN  [i \in DOMAIN merged |->
            IF \E j \in DOMAIN newRatesFromForm :
                   /\ newRatesFromForm[j].key = merged[i].key
                   /\ newRatesFromForm[j].id # 0
            THEN [merged[i] EXCEPT
                     !.id = newRatesFromForm[
                                CHOOSE j \in DOMAIN newRatesFromForm :
                                    /\ newRatesFromForm[j].key = merged[i].key
                                    /\ newRatesFromForm[j].id # 0].id]
            ELSE merged[i]]

mergeFormRates(currentRatesInFile, newRatesFromForm) ==
    MergeFrom(currentRatesInFile, MaxRateId(currentRatesInFile), newRatesFromForm)

\* history.slice(0, 50)
HistoryCap == 50
\* As truncateHistory, but the whole list is kept
truncateHistory_keepAll(history) == history

truncateHistory(history) == slice(history, HistoryCap)

\* updateBoppRates(newRatesFromForm, userId, userName) run to completion at
\* time t: the two files it leaves
updateBoppRates(rFile, hFile, newRatesFromForm, userId, userName, t) ==
    LET currentRatesInFile == loadRatesFromFile(rFile).rates
        history == unshiftHistory(loadHistoryFromFile(hFile).history,
                                  currentRatesInFile, userId, userName, t)
        finalUpdatedRates == mergeFormRates(currentRatesInFile, newRatesFromForm)
    IN  [ratesFile |-> saveRatesToFile(finalUpdatedRates),
         historyFile |-> saveHistoryToFile(truncateHistory(history))]

\* As getRateHistory, with the entries it returns written back to the file
getRateHistory_saves(file, limit) ==
    LET loaded == loadHistoryFromFile(file)
    IN  [history |-> slice(loaded.history, limit),
         file |-> saveHistoryToFile(slice(loaded.history, limit))]

\* getRateHistory(limit): the entries returned and the file it leaves
getRateHistory(file, limit) ==
    LET loaded == loadHistoryFromFile(file)
    IN  [history |-> slice(loaded.history, limit), file |-> loaded.file]

(***************************************************************************)
(* Inputs of the rate store operations.                                    *)
(***************************************************************************)
\* Lists a form may send; id 0 stands for a rate sent without an id.
FormLists ==
    { <<>>,
      \* a default key, sent without an id
      << Rate(0, "profit", Num(15)) >>,
      \* a default key, sent with another rate's id and a value that is NaN
      << Rate(5, "profit", NaN) >>,
      \* a new key without an id
      << Rate(0, "extra_a", Num(5)) >>,
      \* two new keys without ids
      << Rate(0, "extra_a", Num(5)), Rate(0, "extra_b", Num(6)) >>,
      \* the same new key twice
      << Rate(0, "extra_a", Num(5)), Rate(0, "extra_a", Num(7)) >>,
      \* a new key carrying an id that is in use
      << Rate(13, "extra_a", Num(7)) >>,
      \* a new key carrying a fresh id, then a new key without an id
      << Rate(17, "extra_b", Num(7)), Rate(0, "extra_a", Num(5)) >>,
      \* a default key and a new key
      << Rate(0, "natural", Num(1)), Rate(0, "extra_b", Num(6)) >> }

Actors == { [id |-> "admin", name |-> "Administrator"],
            [id |-> "adm001", name |-> "Bob Johnson (Admin)"] }

\* Time that may pass between two calls of the rate store, in ms
ClockAdvance == {0, 1}

HistoryLimits == {1, 5}

(***************************************************************************)
(* Rate store actions.                                                     *)
(***************************************************************************)
UpdateRatesWith(form, actor, t) ==
    LET before == getBoppRates(ratesFile).rates
        loaded == loadHistoryFromFile(historyFile).history
        after == updateBoppRates(ratesFile, historyFile, form, actor.id,
                                 actor.name, t)
    IN  /\ ratesFile' = after.ratesFile
        /\ historyFile' = after.historyFile
        /\ now' = t
        /\ updates' = updates + 1
        /\ ret' = [op |-> "updateBoppRates", form |-> form, actor |-> actor,
                   before |-> before, loadedLen |-> Len(loaded), at |-> t]
        /\ UNCHANGED <<usersFile, calls>>

UpdateRates ==
    /\ updates < MaxUpdates
    /\ \E form \in FormLists, actor \in Actors, d \in ClockAdvance :
           UpdateRatesWith(form, actor, now + d)

\* A long run of updates that change no value
RepeatUpdate ==
    /\ updates < MaxRepeat
    /\ UpdateRatesWith(<<>>, [id |-> "admin", name |-> "Administrator"], now + 1)

GetRates ==
    LET got == getBoppRates(ratesFile)
    IN  /\ ratesFile' = got.file
        /\ ret' = [op |-> "getBoppRates", rates |-> got.rates]
        /\ UNCHANGED <<historyFile, usersFile, now, updates, calls>>

GetRateHistory ==
    \E limit \in HistoryLimits :
        LET got == getRateHistory(historyFile, limit)
        IN  /\ historyFile' = got.file
            /\ ret' = [op |-> "getRateHistory", limit |-> limit,
                       history |-> got.history]
            /\ UNCHANGED <<ratesFile, usersFile, now, updates, calls>>

\* The two calls that may overlap
Callers == {1, 2}
Other(c) == CHOOSE d \in Callers : d # c

\* A call that has not started
IdleCall ==
    [pc |-> "idle", form |-> <<>>, currentRatesInFile |-> <<>>,
     history |-> <<>>, finalUpdatedRates |-> <<>>,
     early |-> FALSE, afterOther |-> FALSE,
     ratesLast |-> FALSE, historyLast |-> FALSE]

Init ==
    /\ calls = [c \in Callers |-> IdleCall]
    /\ ratesFile = NoFile
    /\ historyFile = NoFile
    /\ usersFile = NoFile
    /\ now = ModuleLoadTime
    /\ ret = [op |-> "none"]
    /\ updates = 0

NextRates == UpdateRates \/ GetRates \/ GetRateHistory
SpecRates == Init /\ [][NextRates]_vars

NextCap == RepeatUpdate \/ GetRates \/ GetRateHistory
SpecCap == Init /\ [][NextCap]_vars

(***************************************************************************)
(* Two updateBoppRates calls running step by step.  A call gives way to    *)
(* the other at every await of a file read or write; what lies between two *)
(* awaits is one step.                                                     *)
(***************************************************************************)
\* Lists the two overlapping calls may send
RaceForms ==
    { << Rate(0, "profit", Num(15)) >>,
      << Rate(0, "natural", Num(1)) >>,
      << Rate(0, "extra_a", Num(5)) >> }

\* Who makes call c
RaceActor(c) ==
    IF c = 1 THEN [id |-> "admin", name |-> "Administrator"]
    ELSE [id |-> "adm001", name |-> "Bob Johnson (Admin)"]

RaceFrame == UNCHANGED <<usersFile, now, ret, updates>>

\* updateBoppRates(newRatesFromForm, userId, userName) is called
RaceCall(c) ==
    /\ calls[c].pc = "idle"
    /\ \E form \in RaceForms :
           calls' = [calls EXCEPT ![c].pc = "readRates", ![c].form = form]
    /\ UNCHANGED <<ratesFile, historyFile>>
    /\ RaceFrame

\* loadRatesFromFile: fs.readFile answers; the call notes whether the other
\* call has saved its rates yet, and whether it has finished
RaceReadRates(c) ==
    /\ calls[c].pc = "readRates"
    /\ calls' = [calls EXCEPT
           ![c].pc = IF ratesFile.exists THEN "readHistory" ELSE "seedRates",
           ![c].currentRatesInFile =
               IF ratesFile.exists THEN loadRatesFromFile(ratesFile).rates
               ELSE <<>>,
           ![c].early = calls[Other(c)].pc \notin {"saveHistory", "done"},
           ![c].afterOther = calls[Other(c)].pc = "done"]
    /\ UNCHANGED <<ratesFile, historyFile>>
    /\ RaceFrame

\* loadRatesFromFile after ENOENT: the defaults are written and returned
RaceSeedRates(c) ==
    /\ calls[c].pc = "seedRates"
    /\ ratesFile' = loadRatesFromFile(NoFile).file
    /\ calls' = [calls EXCEPT
           ![c].pc = "readHistory",
           ![c].currentRatesInFile = loadRatesFromFile(NoFile).rates]
    /\ UNCHANGED historyFile
    /\ RaceFrame

\* What a call holds after lines 182-212: the history with the new entry at
\* the front and the merged rates
RaceCompute(call, c, loadedHistory) ==
    [call EXCEPT
        !.pc = "saveRates",
        !.history = unshiftHistory(loadedHistory, call.currentRatesInFile,
                                   RaceActor(c).id, RaceActor(c).name, now),
        !.finalUpdatedRates =
            mergeFormRates(call.currentRatesInFile, call.form)]

\* loadHistoryFromFile: fs.readFile answers
RaceReadHistory(c) ==
    /\ calls[c].pc = "readHistory"
    /\ calls' = [calls EXCEPT
           ![c] = IF historyFile.exists
                  THEN RaceCompute(@, c, loadHistoryFromFile(historyFile).history)
                  ELSE [@ EXCEPT !.pc = "seedHistory"]]
    /\ UNCHANGED <<ratesFile, historyFile>>
    /\ RaceFrame

\* loadHistoryFromFile after ENOENT: the seeded history is written and returned
RaceSeedHistory(c) ==
    /\ calls[c].pc = "seedHistory"
    /\ historyFile' = loadHistoryFromFile(NoFile).file
    /\ calls' = [calls EXCEPT
           ![c] = RaceCompute(@, c, loadHistoryFromFile(NoFile).history)]
    /\ UNCHANGED ratesFile
    /\ RaceFrame

\* As raceRatesToSave, with the incoming list merged into the rates that are
\* in the file at the time of the save
raceRatesToSave_remerged(call) ==
    mergeFormRates(loadRatesFromFile(ratesFile).rates, call.form)

\* The rates a call saves: the ones it merged from what it loaded
raceRatesToSave(call) == call.finalUpdatedRates

\* await saveRatesToFile(finalUpdatedRates)
RaceSaveRates(c) ==
    /\ calls[c].pc = "saveRates"
    /\ ratesFile' = saveRatesToFile(raceRatesToSave(calls[c]))
    /\ calls' = [calls EXCEPT ![c].pc = "saveHistory",
                              ![c].ratesLast = TRUE,
                              ![Other(c)].ratesLast = FALSE]
    /\ UNCHANGED historyFile
    /\ RaceFrame

\* await saveHistoryToFile(history.slice(0, 50))
RaceSaveHistory(c) ==
    /\ calls[c].pc = "saveHistory"
    /\ historyFile' = saveHistoryToFile(truncateHistory(calls[c].history))
    /\ calls' = [calls EXCEPT ![c].pc = "done",
                              ![c].historyLast = TRUE,
                              ![Other(c)].historyLast = FALSE]
    /\ UNCHANGED ratesFile
    /\ RaceFrame

NextRace ==
    \E c \in Callers :
        \/ RaceCall(c) \/ RaceReadRates(c) \/ RaceSeedRates(c)
        \/ RaceReadHistory(c) \/ RaceSeedHistory(c)
        \/ RaceSaveRates(c) \/ RaceSaveHistory(c)
SpecRace == Init /\ [][NextRace]_vars

(***************************************************************************)
(* User store: src/lib/actions/auth.ts                                     *)
(***************************************************************************)
\* A property that is undefined (or absent from the JSON object)
Undefined == "<undefined>"
UndefinedDate == [kind |-> "undefined", ms |-> 0]
NullDate == [kind |-> "null", ms |-> 0]

User(id, name, role, password) ==
    [id |-> id, name |-> name, role |-> role, password |-> password,
     otp |-> Undefined, otp_created_at |-> UndefinedDate]

initialMockUsers ==
    << User("admin", "Administrator", "admin", Undefined),
       User("employee", "Default Employee", "employee", Undefined),
       User("emp001", "Alice Smith", "employee", Undefined),
       User("adm001", "Bob Johnson (Admin)", "admin", Undefined) >>

\* String.prototype.toLowerCase() on the ids of the model
toLowerCase(s) ==
    CASE s = "EMP001" -> "emp001"
      [] s = "Admin" -> "admin"
      [] OTHER -> s

\* loadUsersFromFile(): the users returned and the file it leaves
loadUsersFromFile(file) ==
    IF file.exists
    THEN [users |->
             [i \in DOMAIN file.data |->
                 [file.data[i] EXCEPT
                     !.otp_created_at =
                         IF @.kind = "iso" THEN NewDate(@) ELSE UndefinedDate]],
          file |-> file]
    ELSE [users |-> initialMockUsers, file |-> FileOf(initialMockUsers)]

saveUsersToFile(users) ==
    FileOf([i \in DOMAIN users |->
               [users[i] EXCEPT
                   !.otp_created_at =
                       IF @.kind = "Date" THEN toISOString(@) ELSE NullDate]])

\* Array.prototype.findIndex, counted from 1; 0 when nothing is found
FindIndex(hits) ==
    IF hits # {}
    THEN CHOOSE i \in hits : \A j \in hits : i <= j
    ELSE 0

Failure(error) == [success |-> FALSE, error |-> error]
UserDetails(user) == [id |-> user.id, name |-> user.name, role |-> user.role]

fetchUserDetails(file, userId) ==
    LET loaded == loadUsersFromFile(file)
        users == loaded.users
        i == FindIndex({k \in DOMAIN users : toLowerCase(users[k].id) = toLowerCase(userId)})
    IN  [saved |-> FALSE, file |-> loaded.file,
         result |-> IF i # 0
                    THEN [success |-> TRUE, user |-> UserDetails(users[i])]
                    ELSE Failure("User not found")]

loginUser(file, userId, password) ==
    LET loaded == loadUsersFromFile(file)
        users == loaded.users
        i == FindIndex({k \in DOMAIN users : users[k].id = userId})
        user == users[i]
    IN  [saved |-> FALSE, file |-> loaded.file,
         result |->
             IF i = 0 THEN Failure("User not found")
             ELSE IF user.role = "admin"
             THEN IF user.id = "admin" /\ password = "admin"
                  THEN [success |-> TRUE, user |-> UserDetails(user)]
                  ELSE IF user.id # "admin" /\ user.password = password
                  THEN [success |-> TRUE, user |-> UserDetails(user)]
                  ELSE Failure("Invalid credentials for this admin user.")
             ELSE Failure("Login method not applicable for this user type here.")]

\* As generateAndStoreOTP, with the creation time of an outstanding OTP kept
generateAndStoreOTP_keepsTime(file, userId, newOtp, t) ==
    LET loaded == loadUsersFromFile(file)
        users == loaded.users
        userIndex == FindIndex({k \in DOMAIN users : users[k].id = userId /\ users[k].role = "employee"})
    IN  IF userIndex # 0
        THEN [saved |-> TRUE, file |-> saveUsersToFile(
                           [users EXCEPT
                               ![userIndex].otp = newOtp,
                               ![userIndex].otp_created_at =
                                   IF @.kind = "Date" THEN @ ELSE Date(t)]),
              result |-> [success |-> TRUE, otp |-> newOtp,
                          message |-> "OTP generated successfully."]]
        ELSE [saved |-> FALSE, file |-> loaded.file,
              result |-> Failure("Failed to generate OTP. User not found or not an employee.")]

\* newOtp stands for Math.floor(100000 + Math.random() * 900000).toString()
generateAndStoreOTP(file, userId, newOtp, t) ==
    LET loaded == loadUsersFromFile(file)
        users == loaded.users
        userIndex == FindIndex({k \in DOMAIN users : users[k].id = userId /\ users[k].role = "employee"})
    IN  IF userIndex # 0
        THEN [saved |-> TRUE, file |-> saveUsersToFile(
                           [users EXCEPT ![userIndex].otp = newOtp,
                                         ![userIndex].otp_created_at = Date(t)]),
              result |-> [success |-> TRUE, otp |-> newOtp,
                          message |-> "OTP generated successfully."]]
        ELSE [saved |-> FALSE, file |-> loaded.file,
              result |-> Failure("Failed to generate OTP. User not found or not an employee.")]

fiveMinutes == 5 * 60 * 1000

\* As the checks of verifyOtp, with the code compared before the age
verifyOtpChecks_codeFirst(user, otp, t) ==
    IF user.otp = Undefined \/ user.otp = "" \/ user.otp_created_at.kind = "undefined"
    THEN Failure("No active OTP found for this user. Please generate one.")
    ELSE IF otp # user.otp
    THEN Failure("Invalid OTP")
    ELSE IF t - user.otp_created_at.ms > fiveMinutes
    THEN Failure("OTP has expired. Please generate a new one.")
    ELSE [success |-> TRUE, user |-> UserDetails(user)]

\* As the checks of verifyOtp, with an OTP that expires at 5 minutes sharp
verifyOtpChecks_expiresAtLimit(user, otp, t) ==
    IF user.otp = Undefined \/ user.otp = "" \/ user.otp_created_at.kind = "undefined"
    THEN Failure("No active OTP found for this user. Please generate one.")
    ELSE IF t - user.otp_created_at.ms >= fiveMinutes
    THEN Failure("OTP has expired. Please generate a new one.")
    ELSE IF otp = user.otp
    THEN [success |-> TRUE, user |-> UserDetails(user)]
    ELSE Failure("Invalid OTP")

\* The checks verifyOtp makes on the employee it found, at time t
verifyOtpChecks(user, otp, t) ==
    IF user.otp = Undefined \/ user.otp = "" \/ user.otp_created_at.kind = "undefined"
    THEN Failure("No active OTP found for this user. Please generate one.")
    ELSE IF t - user.otp_created_at.ms > fiveMinutes
    THEN Failure("OTP has expired. Please generate a new one.")
    ELSE IF otp = user.otp
    THEN [success |-> TRUE, user |-> UserDetails(user)]
    ELSE Failure("Invalid OTP")

\* As verifyOtp, with the OTP cleared after a successful verification
verifyOtp_clearOnSuccess(file, userId, otp, t) ==
    LET loaded == loadUsersFromFile(file)
        users == loaded.users
        i == FindIndex({k \in DOMAIN users : users[k].id = userId /\ users[k].role = "employee"})
        result == IF i = 0 THEN Failure("User not found")
                  ELSE verifyOtpChecks(users[i], otp, t)
    IN  [saved |-> result.success,
         file |-> IF result.success
                  THEN saveUsersToFile(
                           [users EXCEPT ![i].otp = Undefined,
                                         ![i].otp_created_at = UndefinedDate])
                  ELSE loaded.file,
         result |-> result]

verifyOtp(file, userId, otp, t) ==
    LET loaded == loadUsersFromFile(file)
        users == loaded.users
        i == FindIndex({k \in DOMAIN users : users[k].id = userId /\ users[k].role = "employee"})
    IN  [saved |-> FALSE, file |-> loaded.file,
         result |-> IF i = 0 THEN Failure("User not found")
                    ELSE verifyOtpChecks(users[i], otp, t)]

\* As addUser, with the id compared exactly
addUser_exactId(file, userId, userName, passwordProvided, role) ==
    LET loaded == loadUsersFromFile(file)
        users == loaded.users
        existing == FindIndex({k \in DOMAIN users : users[k].id = userId})
        newUser == User(userId, userName, role,
                        IF role = "admin" THEN passwordProvided ELSE Undefined)
    IN  IF existing # 0
        THEN [saved |-> FALSE, file |-> loaded.file,
              result |-> Failure("User with this ID already exists.")]
        ELSE [saved |-> TRUE, file |-> saveUsersToFile(Append(users, newUser)),
              result |-> [success |-> TRUE, message |-> "User ${userName} added successfully."]]

\* As addUser, with the password stored whatever the role
addUser_alwaysPassword(file, userId, userName, passwordProvided, role) ==
    LET loaded == loadUsersFromFile(file)
        users == loaded.users
        existingUserById ==
            FindIndex({k \in DOMAIN users : toLowerCase(users[k].id) = toLowerCase(userId)})
        newUser == User(userId, userName, role, passwordProvided)
    IN  IF existingUserById # 0
        THEN [saved |-> FALSE, file |-> loaded.file,
              result |-> Failure("User with this ID already exists.")]
        ELSE [saved |-> TRUE, file |-> saveUsersToFile(Append(users, newUser)),
              result |-> [success |-> TRUE, message |-> "User ${userName} added successfully."]]

addUser(file, userId, userName, passwordProvided, role) ==
    LET loaded == loadUsersFromFile(file)
        users == loaded.users
        existingUserById ==
            FindIndex({k \in DOMAIN users : toLowerCase(users[k].id) = toLowerCase(userId)})
        newUser == User(userId, userName, role,
                        IF role = "admin" THEN passwordProvided ELSE Undefined)
    IN  IF existingUserById # 0
        THEN [saved |-> FALSE, file |-> loaded.file,
              result |-> Failure("User with this ID already exists.")]
        ELSE [saved |-> TRUE, file |-> saveUsersToFile(Append(users, newUser)),
              result |-> [success |-> TRUE, message |-> "User ${userName} added successfully."]]

\* users.filter(u => u.id !== userIdToDelete)
RECURSIVE FilterOut(_, _)
FilterOut(users, userIdToDelete) ==
    IF users = <<>> THEN <<>>
    ELSE LET rest == FilterOut(Tail(users), userIdToDelete)
         IN  IF Head(users).id # userIdToDelete THEN <<Head(users)>> \o rest
             ELSE rest

\* As deleteUser, with only "admin" protected
deleteUser_adminOnly(file, userIdToDelete) ==
    LET loaded == loadUsersFromFile(file)
        users == FilterOut(loaded.users, userIdToDelete)
    IN  IF userIdToDelete = "admin"
        THEN [saved |-> FALSE, file |-> loaded.file,
              result |-> Failure("The default '${userIdToDelete}' account cannot be deleted.")]
        ELSE IF Len(users) < Len(loaded.users)
        THEN [saved |-> TRUE, file |-> saveUsersToFile(users),
              result |-> [success |-> TRUE, message |-> "User deleted successfully."]]
        ELSE [saved |-> FALSE, file |-> loaded.file, result |-> Failure("User not found.")]

deleteUser(file, userIdToDelete) ==
    LET loaded == loadUsersFromFile(file)
        users == FilterOut(loaded.users, userIdToDelete)
    IN  IF userIdToDelete = "admin" \/ userIdToDelete = "employee"
        THEN [saved |-> FALSE, file |-> loaded.file,
              result |-> Failure("The default '${userIdToDelete}' account cannot be deleted.")]
        ELSE IF Len(users) < Len(loaded.users)
        THEN [saved |-> TRUE, file |-> saveUsersToFile(users),
              result |-> [success |-> TRUE, message |-> "User deleted successfully."]]
        ELSE [saved |-> FALSE, file |-> loaded.file, result |-> Failure("User not found.")]

\* As updateAdminDetails, with the name set also when it is empty
updateAdminDetails_alwaysSetsName(file, adminId, name, newPassword) ==
    LET loaded == loadUsersFromFile(file)
        users == loaded.users
        i == FindIndex({k \in DOMAIN users : users[k].id = adminId /\ users[k].role = "admin"})
    IN  IF i = 0
        THEN [saved |-> FALSE, file |-> loaded.file, result |-> Failure("Admin user not found.")]
        ELSE [saved |-> TRUE, file |-> saveUsersToFile(
                           [users EXCEPT
                               ![i].name = name,
                               ![i].password =
                                   IF newPassword # Undefined /\ newPassword # ""
                                   THEN newPassword ELSE @]),
              result |-> [success |-> TRUE,
                          message |-> "Admin details updated successfully."]]

updateAdminDetails(file, adminId, name, newPassword) ==
    LET loaded == loadUsersFromFile(file)
        users == loaded.users
        i == FindIndex({k \in DOMAIN users : users[k].id = adminId /\ users[k].role = "admin"})
    IN  IF i = 0
        THEN [saved |-> FALSE, file |-> loaded.file, result |-> Failure("Admin user not found.")]
        ELSE [saved |-> TRUE, file |-> saveUsersToFile(
                           [users EXCEPT
                               ![i].name = IF name # "" THEN name ELSE @,
                               ![i].password =
                                   IF newPassword # Undefined /\ newPassword # ""
                                   THEN newPassword ELSE @]),
              result |-> [success |-> TRUE,
                          message |-> "Admin details updated successfully."]]

getAllUsers(file) ==
    LET loaded == loadUsersFromFile(file)
    IN  [saved |-> FALSE, file |-> loaded.file, users |-> loaded.users]

\* As revokeOTP, with the creation time of the OTP left in place
revokeOTP_keepsTime(file, userId) ==
    LET loaded == loadUsersFromFile(file)
        users == loaded.users
        i == FindIndex({k \in DOMAIN users : users[k].id = userId /\ users[k].role = "employee"})
    IN  IF i # 0
        THEN [saved |-> TRUE, file |-> saveUsersToFile(
                           [users EXCEPT ![i].otp = Undefined]),
              result |-> [success |-> TRUE, message |-> "OTP for ${user.name} has been revoked."]]
        ELSE [saved |-> FALSE, file |-> loaded.file,
              result |-> Failure("User not found or not an employee.")]

\* As revokeOTP, with the users it loaded saved also when it fails
revokeOTP_savesOnFailure(file, userId) ==
    LET loaded == loadUsersFromFile(file)
        users == loaded.users
        i == FindIndex({k \in DOMAIN users : users[k].id = userId /\ users[k].role = "employee"})
    IN  IF i # 0
        THEN [saved |-> TRUE, file |-> saveUsersToFile(
                           [users EXCEPT ![i].otp = Undefined,
                                         ![i].otp_created_at = UndefinedDate]),
              result |-> [success |-> TRUE, message |-> "OTP for ${user.name} has been revoked."]]
        ELSE [saved |-> FALSE, file |-> saveUsersToFile(users),
              result |-> Failure("User not found or not an employee.")]

revokeOTP(file, userId) ==
    LET loaded == loadUsersFromFile(file)
        users == loaded.users
        i == FindIndex({k \in DOMAIN users : users[k].id = userId /\ users[k].role = "employee"})
    IN  IF i # 0
        THEN [saved |-> TRUE, file |-> saveUsersToFile(
                           [users EXCEPT ![i].otp = Undefined,
                                         ![i].otp_created_at = UndefinedDate]),
              result |-> [success |-> TRUE, message |-> "OTP for ${user.name} has been revoked."]]
        ELSE [saved |-> FALSE, file |-> loaded.file,
              result |-> Failure("User not found or not an employee.")]

(***************************************************************************)
(* Inputs of the user store operations.                                    *)
(***************************************************************************)
\* The four seeded ids, an id that differs from a seeded one only in case,
\* and an id that is not seeded
UserIds == {"admin", "employee", "emp001", "adm001", "EMP001", "emp002"}
Roles == {"admin", "employee"}
OtpCodes == {"123456", "654321"}
Passwords == {Undefined, "admin", "secret"}

\* The times the clock shows in a run, in ms
ClockTimes ==
    {0, 1, fiveMinutes, fiveMinutes + 1, 2 * fiveMinutes + 1, 2 * fiveMinutes + 2}

(***************************************************************************)
(* User store actions.                                                     *)
(***************************************************************************)
Tick ==
    /\ \E t \in ClockTimes : t > now /\ now' = t
    /\ UNCHANGED <<ratesFile, historyFile, usersFile, ret, updates, calls>>

\* What a call of the user store leaves alone; a call that saves the file is
\* counted, and no more than MaxUserWrites of them are made in a run
UsersFrame(done) ==
    /\ done.saved => updates < MaxUserWrites
    /\ updates' = IF done.saved THEN updates + 1 ELSE updates
    /\ UNCHANGED <<ratesFile, historyFile, now, calls>>

FetchUserDetails ==
    \E userId \in UserIds :
        LET done == fetchUserDetails(usersFile, userId)
        IN  /\ usersFile' = done.file
            /\ ret' = [op |-> "fetchUserDetails", userId |-> userId,
                       result |-> done.result]
            /\ UsersFrame(done)

LoginUser ==
    \E userId \in UserIds, password \in Passwords :
        LET done == loginUser(usersFile, userId, password)
        IN  /\ usersFile' = done.file
            /\ ret' = [op |-> "loginUser", userId |-> userId,
                       password |-> password, result |-> done.result,
                       before |-> loadUsersFromFile(usersFile).users]
            /\ UsersFrame(done)

GenerateAndStoreOTP ==
    \E userId \in UserIds, newOtp \in OtpCodes :
        LET done == generateAndStoreOTP(usersFile, userId, newOtp, now)
        IN  /\ usersFile' = done.file
            /\ ret' = [op |-> "generateAndStoreOTP", userId |-> userId,
                       result |-> done.result, at |-> now,
                       before |-> loadUsersFromFile(usersFile).users]
            /\ UsersFrame(done)

VerifyOtp ==
    \E userId \in UserIds, otp \in OtpCodes :
        LET done == verifyOtp(usersFile, userId, otp, now)
        IN  /\ usersFile' = done.file
            /\ ret' = [op |-> "verifyOtp", userId |-> userId, otp |-> otp,
                       result |-> done.result, at |-> now,
                       before |-> loadUsersFromFile(usersFile).users,
                       \* the call before this one was a successful
                       \* verifyOtp of the same user and code
                       again |-> /\ ret.op = "verifyOtp"
                                 /\ ret.result.success
                                 /\ ret.userId = userId
                                 /\ ret.otp = otp]
            /\ UsersFrame(done)

AddUser ==
    \E userId \in UserIds, role \in Roles :
        LET done == addUser(usersFile, userId, "New User", "secret", role)
        IN  /\ usersFile' = done.file
            /\ ret' = [op |-> "addUser", userId |-> userId, role |-> role,
                       result |-> done.result,
                       before |-> loadUsersFromFile(usersFile).users]
            /\ UsersFrame(done)

DeleteUser ==
    \E userId \in UserIds :
        LET done == deleteUser(usersFile, userId)
        IN  /\ usersFile' = done.file
            /\ ret' = [op |-> "deleteUser", userId |-> userId,
                       result |-> done.result,
                       before |-> loadUsersFromFile(usersFile).users]
            /\ UsersFrame(done)

UpdateAdminDetails ==
    \E adminId \in UserIds, name \in {"", "Renamed"},
       newPassword \in {Undefined, "", "secret"} :
        LET done == updateAdminDetails(usersFile, adminId, name, newPassword)
        IN  /\ usersFile' = done.file
            /\ ret' = [op |-> "updateAdminDetails", userId |-> adminId,
                       name |-> name, newPassword |-> newPassword,
                       result |-> done.result,
                       before |-> loadUsersFromFile(usersFile).users]
            /\ UsersFrame(done)

GetAllUsers ==
    LET done == getAllUsers(usersFile)
    IN  /\ usersFile' = done.file
        /\ ret' = [op |-> "getAllUsers", users |-> done.users]
        /\ UsersFrame(done)

RevokeOTP ==
    \E userId \in UserIds :
        LET done == revokeOTP(usersFile, userId)
        IN  /\ usersFile' = done.file
            /\ ret' = [op |-> "revokeOTP", userId |-> userId,
                       result |-> done.result,
                       before |-> loadUsersFromFile(usersFile).users]
            /\ UsersFrame(done)

\* Every operation of the user store, with the clock standing still
NextUsers ==
    \/ FetchUserDetails \/ LoginUser \/ GenerateAndStoreOTP \/ VerifyOtp
    \/ AddUser \/ DeleteUser \/ UpdateAdminDetails \/ GetAllUsers \/ RevokeOTP
SpecUsers == Init /\ [][NextUsers]_vars

\* More than the lifetime of an OTP passes, once in a run
Expire ==
    /\ now = ModuleLoadTime
    /\ now' = now + fiveMinutes + 1
    /\ UNCHANGED <<ratesFile, historyFile, usersFile, ret, updates, calls>>

\* Every operation of the user store, with a clock that lets an OTP expire
NextUsersClock == NextUsers \/ Expire
SpecUsersClock == Init /\ [][NextUsersClock]_vars

\* The OTP operations on the seeded users, with the clock running
NextOtp == GenerateAndStoreOTP \/ VerifyOtp \/ RevokeOTP \/ Tick
SpecOtp == Init /\ [][NextOtp]_vars

(***************************************************************************)
(* Two writing calls of the user store running step by step.  A call gives *)
(* way to the other at the await of its file read and of its file write.   *)
(***************************************************************************)
\* The calls that may overlap: each is on a user of its own
UserRaceOps ==
    { [op |-> "generateAndStoreOTP", userId |-> "emp001"],
      [op |-> "generateAndStoreOTP", userId |-> "employee"],
      [op |-> "addUser", userId |-> "emp002"],
      [op |-> "deleteUser", userId |-> "adm001"],
      [op |-> "revokeOTP", userId |-> "employee"],
      [op |-> "updateAdminDetails", userId |-> "admin"] }

\* The code Math.random() gives to call c
RaceOtp(c) == IF c = 1 THEN "123456" ELSE "654321"

\* The call run on the users it read from file: what it returns and the file
\* it is about to write
ApplyUserOp(call, c, file) ==
    CASE call.op = "generateAndStoreOTP" ->
             generateAndStoreOTP(file, call.userId, RaceOtp(c), now)
      [] call.op = "addUser" ->
             addUser(file, call.userId, "New User", "secret", "employee")
      [] call.op = "deleteUser" -> deleteUser(file, call.userId)
      [] call.op = "revokeOTP" -> revokeOTP(file, call.userId)
      [] call.op = "updateAdminDetails" ->
             updateAdminDetails(file, call.userId, "Renamed", Undefined)

UserRaceFrame == UNCHANGED <<ratesFile, historyFile, now, ret, updates>>

\* One of the writing operations is called
UserCall(c) ==
    /\ calls[c].pc = "idle"
    /\ \E o \in UserRaceOps :
           calls' = [calls EXCEPT
               ![c] = [pc |-> "read", op |-> o.op, userId |-> o.userId,
                       pending |-> [saved |-> FALSE], early |-> FALSE,
                       savedLast |-> FALSE]]
    /\ UNCHANGED usersFile
    /\ UserRaceFrame

\* What a call holds once loadUsersFromFile has returned: it has changed its
\* copy of the users and either awaits saveUsersToFile or returns a failure
UserLoaded(call, c, file) ==
    LET done == ApplyUserOp(call, c, file)
    IN  [call EXCEPT !.pc = IF done.saved THEN "save" ELSE "done",
                     !.pending = done]

\* loadUsersFromFile: fs.readFile answers; the call notes whether the other
\* call has finished
UserRead(c) ==
    /\ calls[c].pc = "read"
    /\ calls' = [calls EXCEPT
           ![c] = IF usersFile.exists
                  THEN [UserLoaded(@, c, usersFile) EXCEPT
                           !.early = calls[Other(c)].pc # "done"]
                  ELSE [@ EXCEPT !.pc = "seed",
                                 !.early = calls[Other(c)].pc # "done"]]
    /\ UNCHANGED usersFile
    /\ UserRaceFrame

\* loadUsersFromFile after ENOENT: the seeded users are written and returned
UserSeed(c) ==
    /\ calls[c].pc = "seed"
    /\ usersFile' = loadUsersFromFile(NoFile).file
    /\ calls' = [calls EXCEPT ![c] = UserLoaded(@, c, NoFile)]
    /\ UserRaceFrame

\* As usersToSave, with the operation run again on the users that are in the
\* file at the time of the save
usersToSave_reloaded(call, c) == ApplyUserOp(call, c, usersFile).file

\* The file a call writes: its changed copy of the users it loaded
usersToSave(call, c) == call.pending.file

\* await saveUsersToFile(users), after which the call returns
UserSave(c) ==
    /\ calls[c].pc = "save"
    /\ usersFile' = usersToSave(calls[c], c)
    /\ calls' = [calls EXCEPT ![c].pc = "done",
                              ![c].savedLast = TRUE,
                              ![Other(c)].savedLast = FALSE]
    /\ UserRaceFrame

NextUserRace ==
    \E c \in Callers :
        UserCall(c) \/ UserRead(c) \/ UserSeed(c) \/ UserSave(c)
SpecUserRace == Init /\ [][NextUserRace]_vars

(***************************************************************************)
(* Properties of the rate store.                                           *)
(***************************************************************************)
Keys(rates) == {rates[i].key : i \in DOMAIN rates}
WithKey(rates, key) == {i \in DOMAIN rates : rates[i].key = key}
UpdateDone == ret.op = "updateBoppRates"
CurrentRates == getBoppRates(ratesFile).rates
StoredHistory == loadHistoryFromFile(historyFile).history

\* C1: after an updateBoppRates call, getRateHistory(1) returns one entry whose
\* snapshot is the rate set getBoppRates() returned just before the call
\* (same ids, keys and values) and whose actor is the one passed to the call.
C1_SnapshotIsPreUpdateRates ==
    UpdateDone =>
        LET newest == getRateHistory(historyFile, 1).history
        IN  /\ Len(newest) = 1
            /\ newest[1].rates_snapshot = ret.before
            /\ newest[1].changed_by_id = ret.actor.id
            /\ newest[1].changed_by_name = ret.actor.name

\* C3: the persisted history never has more than 50 entries, and a call that
\* loaded 50 entries leaves exactly 50.
C3_HistoryAtMostCap ==
    /\ Len(historyFile.data) <= 50
    /\ Len(StoredHistory) <= 50
    /\ (UpdateDone /\ ret.loadedLen = 50) => Len(historyFile.data) = 50

C3_Witness ==
    /\ UpdateDone
    /\ ret.loadedLen = 50
    /\ Len(historyFile.data) = 50

\* C4: the stored history is ordered newest-first by changed_at, so that
\* getRateHistory(1) returns the most recently changed entry and truncation
\* drops the entry with the oldest changed_at.
C4_HistoryNewestFirst ==
    LET stored == StoredHistory
    IN  ret.op # "none" =>
            /\ \A i, j \in DOMAIN stored :
                   i < j => stored[i].changed_at.ms >= stored[j].changed_at.ms
            /\ (ret.op = "getRateHistory" /\ ret.limit = 1) =>
                   \A j \in DOMAIN stored :
                       ret.history[1].changed_at.ms >= stored[j].changed_at.ms

\* C5: the set returned by getBoppRates() never holds two rates with one id.
C5_RateIdsUnique ==
    LET current == CurrentRates
    IN  \A i, j \in DOMAIN current : i # j => current[i].id # current[j].id

\* Position i of the incoming list inserts a rate: its key is not in the set the
\* call loaded and does not occur earlier in the list.
IsInsert(form, before, i) ==
    /\ form[i].key \notin Keys(before)
    /\ \A j \in 1..(i - 1) : form[j].key # form[i].key

\* Number of inserts without an id among the first i positions of the list
NewIdsUpTo(form, before, i) ==
    Cardinality({j \in 1..i : IsInsert(form, before, j) /\ form[j].id = 0})

\* What C6 says of every key, whatever id newId(i) the call is said to give to
\* the rate inserted by position i of the list
C6_KeysPart(current, newId(_)) ==
    /\ \A k \in Keys(current) : Cardinality(WithKey(current, k)) = 1
    /\ UpdateDone =>
          /\ Keys(current) =
                 Keys(ret.before) \cup {ret.form[i].key : i \in DOMAIN ret.form}
          /\ Len(current) = Cardinality(Keys(current))
          /\ \A i \in DOMAIN ret.before :
                 \E j \in DOMAIN current :
                     /\ current[j].key = ret.before[i].key
                     /\ current[j].id = ret.before[i].id
          /\ \A i \in DOMAIN ret.form :
                 IsInsert(ret.form, ret.before, i) =>
                     \E j \in DOMAIN current :
                         /\ current[j].key = ret.form[i].key
                         /\ current[j].id =
                                IF ret.form[i].id # 0 THEN ret.form[i].id
                                ELSE newId(i)

\* C6 as stated: a rate inserted without an id gets 1 + the largest id of the
\* current set; a key that is present is never added again.
C6_NewIdIsMaxPlusOne ==
    LET current == CurrentRates
        largest == MaxRateId(ret.before)
    IN  C6_KeysPart(current, LAMBDA i : largest + 1)

\* C6 as amended: the n-th rate a call inserts without an id gets the largest
\* id of the current set plus n; a key that is present is never added again
\* and keeps its id, so keys stay pairwise distinct.
C6_NewIdIsMaxPlusCount ==
    LET current == CurrentRates
        largest == MaxRateId(ret.before)
    IN  C6_KeysPart(current,
                    LAMBDA i : largest + NewIdsUpTo(ret.form, ret.before, i))

C6_Witness ==
    LET current == CurrentRates
    IN  /\ UpdateDone
        /\ \E i \in DOMAIN ret.form :
               /\ IsInsert(ret.form, ret.before, i)
               /\ ret.form[i].id = 0
               /\ NewIdsUpTo(ret.form, ret.before, i) = 2
               /\ \E j \in DOMAIN current :
                      /\ current[j].key = ret.form[i].key
                      /\ current[j].id = MaxRateId(ret.before) + 2

ValueOf(rates, key) == rates[CHOOSE i \in DOMAIN rates : rates[i].key = key].value

\* C13: getBoppRates() always holds the 16 default keys; while no update has
\* been made it returns exactly the 16 defaults, ids 1 to 16, with their
\* default values; an update never removes a rate.
C13_DefaultKeysStay ==
    LET current == CurrentRates
    IN  /\ Keys(initialDefaultRates) \subseteq Keys(current)
        /\ Len(initialDefaultRates) = 16
        /\ updates = 0 =>
               /\ current = initialDefaultRates
               /\ \A i \in 1..16 : current[i].id = i
               /\ ValueOf(current, "profit") = Num(10)
               /\ ValueOf(current, "natural") = Num(0)
               /\ ValueOf(current, "transparent") = Num(0)
        /\ ret.op = "getBoppRates" => ret.rates = current
        /\ UpdateDone =>
               /\ Keys(ret.before) \subseteq Keys(current)
               /\ Len(current) >= Len(ret.before)

C13_Witness ==
    /\ UpdateDone
    /\ updates = 2
    /\ Len(ret.before) = 17
    /\ Len(CurrentRates) = 18
    /\ Keys(initialDefaultRates) \subseteq Keys(CurrentRates)

\* C14: updateBoppRates leaves every rate of the loaded set at its place with
\* its id and key, also when the incoming rate of that key carries another
\* id; the value of a rate whose key is not in the incoming list is unchanged,
\* and the value of one whose key is in the list is the last one sent for it.
C14_OnlyIncomingValuesChange ==
    UpdateDone =>
        LET current == CurrentRates
            sent == {ret.form[j].key : j \in DOMAIN ret.form}
        IN  /\ Len(current) >= Len(ret.before)
            /\ \A i \in DOMAIN ret.before :
                   /\ current[i].id = ret.before[i].id
                   /\ current[i].key = ret.before[i].key
                   /\ ret.before[i].key \notin sent =>
                          current[i] = ret.before[i]
                   /\ \A j \in DOMAIN ret.form :
                          (/\ ret.form[j].key = ret.before[i].key
                           /\ \A k \in (j + 1)..Len(ret.form) :
                                  ret.form[k].key # ret.form[j].key)
                              => current[i].value = JSONNumber(ret.form[j].value)

C14_Witness ==
    /\ UpdateDone
    /\ updates = 2
    /\ \E j \in DOMAIN ret.form, i \in DOMAIN ret.before :
           /\ ret.form[j].key = ret.before[i].key
           /\ ret.form[j].id # 0
           /\ ret.form[j].id # ret.before[i].id
           /\ CurrentRates[i].id = ret.before[i].id
           /\ CurrentRates[i].value # ret.before[i].value

\* C15 as stated: getRateHistory(limit) returns the first min(limit, length)
\* entries of the stored history and leaves both files as they were, whether
\* or not a history file exists.
C15_GetRateHistoryWritesNothing ==
    [][ (ret' # ret /\ ret'.op = "getRateHistory") =>
            /\ ret'.history = slice(StoredHistory, ret'.limit)
            /\ Len(ret'.history) = Min(ret'.limit, Len(StoredHistory))
            /\ ratesFile' = ratesFile
            /\ historyFile' = historyFile ]_vars

\* C15 as amended: getRateHistory(limit) returns the first min(limit, length)
\* entries of the stored history, leaves the rates file as it was and leaves
\* a history file that exists as it was; when there is no history file it
\* writes the seeded history to it, which is the history it returned from.
C15_GetRateHistoryOnlySeeds ==
    [][ (ret' # ret /\ ret'.op = "getRateHistory") =>
            /\ ret'.history = slice(StoredHistory, ret'.limit)
            /\ Len(ret'.history) = Min(ret'.limit, Len(StoredHistory))
            /\ ratesFile' = ratesFile
            /\ historyFile.exists => historyFile' = historyFile
            /\ ~historyFile.exists =>
                   historyFile' = FileOf(JSONHistory(initialMockRateHistory))
            /\ loadHistoryFromFile(historyFile').history = StoredHistory ]_vars

C15_Witness ==
    /\ ret.op = "getRateHistory"
    /\ updates = 1
    /\ ret.limit = 5
    /\ Len(ret.history) = 3
    /\ ret.history = StoredHistory

HistoryIds(stored) == {stored[i].id : i \in DOMAIN stored}

\* C21: with the calls made one after the other, every updateBoppRates call
\* (also one with an empty list) puts one entry in front of the history it
\* loaded, with 1 + the largest id of that history as its id and the actor of
\* the call; this id is the number of ids issued so far, so larger than any
\* issued before, also when the oldest entry is cut off at 50; the entries that
\* stay are as they were, and ids are pairwise distinct.
C21_OneNewHistoryEntry ==
    [][ updates' # updates =>
            LET old == StoredHistory
                new == loadHistoryFromFile(historyFile').history
            IN  /\ ret'.op = "updateBoppRates"
                /\ Len(new) = Min(Len(old) + 1, 50)
                /\ new[1].id = 1 + MaxHistoryId(old)
                /\ new[1].id = Len(initialMockRateHistory) + updates'
                /\ \A i \in DOMAIN old : new[1].id > old[i].id
                /\ new[1].changed_by_id = ret'.actor.id
                /\ new[1].changed_by_name = ret'.actor.name
                /\ new[1].changed_at = Date(ret'.at)
                /\ \A i \in 2..Len(new) : new[i] = old[i - 1]
                /\ Cardinality(HistoryIds(old)) = Len(old)
                /\ Cardinality(HistoryIds(new)) = Len(new) ]_vars

\* An update that loaded 50 entries, after an earlier one that did
C21_Witness ==
    /\ UpdateDone
    /\ ret.form = <<>>
    /\ ret.loadedLen = 50
    /\ updates = 50
    /\ Len(StoredHistory) = 50
    /\ StoredHistory[1].id = 52
    /\ Cardinality(HistoryIds(StoredHistory)) = 50

AllDone == \A c \in Callers : calls[c].pc = "done"

\* The current rates hold the value call sent for every key it sent and the
\* other call did not
HasValuesOf(current, call, other) ==
    \A j \in DOMAIN call.form :
        call.form[j].key \notin Keys(other.form) =>
            \E i \in DOMAIN current :
                /\ current[i].key = call.form[j].key
                /\ current[i].value = call.form[j].value

\* The current rates hold none of the values call sent for a key the other
\* call did not send
LacksValuesOf(current, call, other) ==
    \A j \in DOMAIN call.form :
        call.form[j].key \notin Keys(other.form) =>
            \A i \in DOMAIN current :
                current[i].key = call.form[j].key
                    => current[i].value # call.form[j].value

EntriesBy(stored, c) ==
    {i \in DOMAIN stored : stored[i].changed_by_id = RaceActor(c).id}

\* C18: when two updateBoppRates calls have completed and each read the rates
\* before either saved its rates, the rates are those of the call that saved
\* last, merged from the rates before both, and lack what the other call
\* sent; when one call began to read after the other was done, the rates hold
\* what both sent and the history holds an entry of each, the later one first
\* with the rates the earlier call left as its snapshot.
C18_OverlapLosesUpdate ==
    AllDone =>
        \A a, b \in Callers :
            (a # b /\ calls[b].ratesLast) =>
                LET current == CurrentRates
                    stored == StoredHistory
                    first == mergeFormRates(initialDefaultRates, calls[a].form)
                IN  /\ (calls[a].early /\ calls[b].early) =>
                           /\ ratesFile = saveRatesToFile(
                                  mergeFormRates(initialDefaultRates, calls[b].form))
                           /\ LacksValuesOf(current, calls[a], calls[b])
                           /\ HasValuesOf(current, calls[b], calls[a])
                    /\ calls[b].afterOther =>
                           /\ ratesFile = saveRatesToFile(
                                  mergeFormRates(first, calls[b].form))
                           /\ HasValuesOf(current, calls[a], calls[b])
                           /\ HasValuesOf(current, calls[b], calls[a])
                           /\ Len(stored) = Len(initialMockRateHistory) + 2
                           /\ EntriesBy(stored, b) = {1}
                           /\ EntriesBy(stored, a) = {2}
                           /\ stored[1].rates_snapshot = JSONRates(first)
                           /\ stored[2].rates_snapshot = initialDefaultRates

\* Both calls completed, both read the rates before either saved, and neither
\* the value nor the history entry of the call that saved first is there
C18_Witness ==
    /\ AllDone
    /\ \E a, b \in Callers :
           /\ a # b
           /\ calls[b].ratesLast
           /\ calls[a].early /\ calls[b].early
           /\ Keys(calls[a].form) # Keys(calls[b].form)
           /\ LacksValuesOf(CurrentRates, calls[a], calls[b])
           /\ EntriesBy(StoredHistory, a) = {}
           /\ EntriesBy(StoredHistory, b) # {}

\* Neither call began to read after the other was done
Overlapped == \A c \in Callers : ~calls[c].afterOther

RatesFileOf(c) == saveRatesToFile(calls[c].finalUpdatedRates)
HistoryFileOf(c) == saveHistoryToFile(truncateHistory(calls[c].history))

\* C22: after two overlapping updateBoppRates calls have completed,
\* the rates file and the history file are those one and the same call
\* saved, and the snapshot of the newest history entry is the rate set the
\* call that saved the rates file had loaded.
C22_SameCallWroteBoth ==
    (AllDone /\ Overlapped) =>
        /\ \E c \in Callers :
               /\ ratesFile = RatesFileOf(c)
               /\ historyFile = HistoryFileOf(c)
        /\ \A c \in Callers :
               calls[c].ratesLast =>
                   historyFile.data[1].rates_snapshot
                       = JSONRates(calls[c].currentRatesInFile)

\* What the two files do hold after two overlapping calls: the rates file is
\* the one saved by the call that saved its rates last and the history file
\* the one saved by the call that saved its history last; the snapshot of the
\* newest history entry is the rate set the call that saved the history had
\* loaded, and that entry names that call's actor.
LastWriterPerFile ==
    (AllDone /\ Overlapped) =>
        \A r, h \in Callers :
            (calls[r].ratesLast /\ calls[h].historyLast) =>
                /\ ratesFile = RatesFileOf(r)
                /\ historyFile = HistoryFileOf(h)
                /\ historyFile.data[1].rates_snapshot
                       = JSONRates(calls[h].currentRatesInFile)
                /\ historyFile.data[1].changed_by_id = RaceActor(h).id

\* Both calls completed; the rates are those of one call and the history
\* that of the other, without an entry for the call whose rates are in force
TornStore ==
    /\ AllDone
    /\ Overlapped
    /\ \E r, h \in Callers :
           /\ r # h
           /\ calls[r].ratesLast
           /\ calls[h].historyLast
           /\ ratesFile = RatesFileOf(r)
           /\ ratesFile # RatesFileOf(h)
           /\ historyFile = HistoryFileOf(h)
           /\ EntriesBy(StoredHistory, r) = {}

(***************************************************************************)
(* Properties of the user store.                                           *)
(***************************************************************************)
UsersView == loadUsersFromFile(usersFile).users
Ids(users) == {users[i].id : i \in DOMAIN users}

\* The employees with the given id among users (at most one in any store the
\* operations produce)
EmployeesWithId(users, userId) ==
    {i \in DOMAIN users : users[i].id = userId /\ users[i].role = "employee"}
HasOtp(user) == user.otp # Undefined /\ user.otp_created_at.kind = "Date"

\* C2: verifyOtp succeeds exactly when an employee with that id exists, an OTP
\* is stored for it, the OTP is at most 300000 ms old and the submitted code
\* equals the stored one; at an age of 300001 ms it fails with the expiry error.
C2_VerifyOtpExact ==
    ret.op = "verifyOtp" =>
        LET users == ret.before
            found == EmployeesWithId(users, ret.userId)
        IN  /\ ret.result.success <=>
                  \E i \in found :
                      /\ HasOtp(users[i])
                      /\ ret.at - users[i].otp_created_at.ms <= 300000
                      /\ ret.otp = users[i].otp
            /\ \A i \in found :
                   (HasOtp(users[i]) /\ ret.at - users[i].otp_created_at.ms = 300001)
                       => /\ ~ret.result.success
                          /\ ret.result.error = "OTP has expired. Please generate a new one."

C2_Witness ==
    /\ ret.op = "verifyOtp"
    /\ ret.result.success
    /\ \E i \in EmployeesWithId(ret.before, ret.userId) :
           ret.at - ret.before[i].otp_created_at.ms = 300000

\* C7: deleteUser fails for "admin" and "employee", which are therefore always
\* in the store; for any other id in the store it succeeds and removes exactly
\* that user, and the same call repeated at once fails with not-found.
C7_ProtectedUsersStay ==
    LET users == UsersView
    IN  /\ {"admin", "employee"} \subseteq Ids(users)
        /\ ret.op = "deleteUser" =>
              IF ret.userId \in {"admin", "employee"}
              THEN /\ ~ret.result.success
                   /\ users = ret.before
              ELSE IF ret.userId \in Ids(ret.before)
              THEN /\ ret.result.success
                   /\ \E i \in DOMAIN ret.before :
                          /\ ret.before[i].id = ret.userId
                          /\ users = SubSeq(ret.before, 1, i - 1)
                                        \o SubSeq(ret.before, i + 1, Len(ret.before))
                   /\ deleteUser(usersFile, ret.userId).result
                          = Failure("User not found.")
              ELSE /\ ret.result = Failure("User not found.")
                   /\ users = ret.before

C7_Witness ==
    /\ ret.op = "deleteUser"
    /\ ret.result.success
    /\ ret.userId \in Ids(ret.before)
    /\ ret.userId \notin Ids(UsersView)
    /\ Len(UsersView) = Len(ret.before) - 1

\* C8: addUser with an id that equals an existing id ignoring case fails and
\* adds nothing, so the store never holds two users whose ids are equal
\* ignoring case.
C8_NoCaseDuplicateIds ==
    LET users == UsersView
    IN  /\ \A i, j \in DOMAIN users :
               i # j => toLowerCase(users[i].id) # toLowerCase(users[j].id)
        /\ (/\ ret.op = "addUser"
            /\ \E i \in DOMAIN ret.before :
                   toLowerCase(ret.before[i].id) = toLowerCase(ret.userId))
              => /\ ret.result = Failure("User with this ID already exists.")
                 /\ users = ret.before

C8_Witness ==
    /\ ret.op = "addUser"
    /\ ~ret.result.success
    /\ ret.userId \notin Ids(ret.before)
    /\ \E i \in DOMAIN ret.before :
           toLowerCase(ret.before[i].id) = toLowerCase(ret.userId)
    /\ UsersView = ret.before

\* C9: verifyOtp checks the user and role, then that an OTP is stored, then its
\* age, then the code: an OTP older than 5 minutes gives the expiry failure
\* whether the submitted code is right or wrong.
C9_ExpiryBeforeCodeMatch ==
    ret.op = "verifyOtp" =>
        LET users == ret.before
            found == EmployeesWithId(users, ret.userId)
        IN  /\ found = {} => ret.result = Failure("User not found")
            /\ \A i \in found :
                   LET age == ret.at - users[i].otp_created_at.ms
                   IN  /\ ~HasOtp(users[i]) =>
                              ret.result = Failure("No active OTP found for this user. Please generate one.")
                       /\ (HasOtp(users[i]) /\ age > 5 * 60 * 1000) =>
                              ret.result = Failure("OTP has expired. Please generate a new one.")
                       /\ (HasOtp(users[i]) /\ age <= 5 * 60 * 1000
                              /\ ret.otp # users[i].otp) =>
                              ret.result = Failure("Invalid OTP")

C9_Witness ==
    /\ ret.op = "verifyOtp"
    /\ ret.result = Failure("OTP has expired. Please generate a new one.")
    /\ \E i \in EmployeesWithId(ret.before, ret.userId) :
           /\ ret.otp = ret.before[i].otp
           /\ ret.at - ret.before[i].otp_created_at.ms > 5 * 60 * 1000

\* C10: a successful verifyOtp leaves the users file as it was, and a further
\* verifyOtp of the same user and code, with no other call in between,
\* succeeds as long as the stored OTP is not more than 5 minutes old.
C10_SuccessKeepsOtp ==
    [][ /\ (ret' # ret /\ ret'.op = "verifyOtp" /\ ret'.result.success)
            => usersFile' = usersFile
        /\ (/\ ret.op = "verifyOtp"
            /\ ret.result.success
            /\ ret' # ret
            /\ ret'.op = "verifyOtp"
            /\ ret'.userId = ret.userId
            /\ ret'.otp = ret.otp
            /\ \E i \in EmployeesWithId(ret.before, ret.userId) :
                   ret'.at - ret.before[i].otp_created_at.ms <= 5 * 60 * 1000)
            => ret'.result.success ]_vars

C10_Witness ==
    /\ ret.op = "verifyOtp"
    /\ ret.again
    /\ ret.result.success
    /\ \E i \in EmployeesWithId(UsersView, ret.userId) :
           /\ UsersView[i].otp = ret.otp
           /\ ret.at > UsersView[i].otp_created_at.ms

NoActiveOtp == Failure("No active OTP found for this user. Please generate one.")

\* The OTP and its creation time of every user of before that is still in
\* users are as they were
OtpFieldsKept(before, users) ==
    \A i \in DOMAIN before, j \in DOMAIN users :
        users[j].id = before[i].id =>
            /\ users[j].otp = before[i].otp
            /\ users[j].otp_created_at = before[i].otp_created_at

\* C11: every user has an OTP and a creation time or neither, in the list the
\* operations load and in the file; generateAndStoreOTP sets both, revokeOTP
\* clears both, verifyOtp gives the no-active-OTP failure for every code while
\* an employee has none, and no other operation changes either field.
C11_OtpAndTimeTogether ==
    LET users == UsersView
    IN  /\ \A i \in DOMAIN users :
               /\ users[i].otp # Undefined <=> users[i].otp_created_at.kind = "Date"
               /\ (users[i].role = "employee" /\ users[i].otp = Undefined) =>
                      \A code \in OtpCodes :
                          verifyOtp(usersFile, users[i].id, code, now).result
                              = NoActiveOtp
        /\ \A i \in DOMAIN usersFile.data :
               usersFile.data[i].otp # Undefined
                   <=> usersFile.data[i].otp_created_at.kind = "iso"
        /\ (ret.op = "generateAndStoreOTP" /\ ret.result.success) =>
               \A i \in EmployeesWithId(users, ret.userId) : HasOtp(users[i])
        /\ (ret.op = "revokeOTP" /\ ret.result.success) =>
               /\ EmployeesWithId(users, ret.userId) # {}
               /\ \A i \in EmployeesWithId(users, ret.userId) :
                      /\ users[i].otp = Undefined
                      /\ users[i].otp_created_at = UndefinedDate
        /\ ret.op \in {"loginUser", "verifyOtp", "addUser", "deleteUser",
                       "updateAdminDetails"} =>
               OtpFieldsKept(ret.before, users)

C11_Witness ==
    /\ ret.op = "revokeOTP"
    /\ ret.result.success
    /\ \E i \in EmployeesWithId(ret.before, ret.userId) : HasOtp(ret.before[i])
    /\ \A i \in EmployeesWithId(UsersView, ret.userId) : ~HasOtp(UsersView[i])

\* C12: generateAndStoreOTP succeeds exactly for the id of an employee; it then
\* leaves that user with the code it returned and the time of the call and
\* every other field and user as they were, so that only the returned code
\* verifies, up to 5 minutes after the call and no longer; for any other id it
\* fails and the users are as they were.
C12_GenerateReplacesOtp ==
    ret.op = "generateAndStoreOTP" =>
        LET before == ret.before
            users == UsersView
            found == EmployeesWithId(before, ret.userId)
        IN  /\ ret.result.success <=> found # {}
            /\ ret.result.success =>
                   /\ ret.result.otp \in OtpCodes
                   /\ \E i \in found :
                          users = [before EXCEPT
                                      ![i].otp = ret.result.otp,
                                      ![i].otp_created_at = Date(ret.at)]
                   /\ \A code \in OtpCodes :
                          verifyOtp(usersFile, ret.userId, code,
                                    ret.at + fiveMinutes).result.success
                              <=> code = ret.result.otp
                   /\ verifyOtp(usersFile, ret.userId, ret.result.otp,
                                ret.at + fiveMinutes + 1).result
                          = Failure("OTP has expired. Please generate a new one.")
            /\ ~ret.result.success =>
                   /\ ret.result = Failure("Failed to generate OTP. User not found or not an employee.")
                   /\ users = before

C12_Witness ==
    /\ ret.op = "generateAndStoreOTP"
    /\ ret.result.success
    /\ \E i \in EmployeesWithId(ret.before, ret.userId) :
           /\ HasOtp(ret.before[i])
           /\ ret.before[i].otp # ret.result.otp
           /\ ret.before[i].otp_created_at.ms < ret.at
           /\ UsersView[i].otp = ret.result.otp
           /\ UsersView[i].otp_created_at = Date(ret.at)

UsersWithId(users, userId) == {i \in DOMAIN users : users[i].id = userId}

\* C16: loginUser succeeds exactly when a user with that id and role admin
\* exists and a password is given that equals "admin" for id "admin" and the
\* stored password for another admin, so never for an admin without a stored
\* password; an employee id gives the not-applicable failure and an unknown
\* id the user-not-found failure.
C16_LoginNeedsCredential ==
    ret.op = "loginUser" =>
        LET users == ret.before
            found == UsersWithId(users, ret.userId)
        IN  /\ found = {} => ret.result = Failure("User not found")
            /\ \A i \in found :
                   IF users[i].role = "admin"
                   THEN /\ ret.result.success <=>
                               /\ ret.password # Undefined
                               /\ ret.password =
                                      IF users[i].id = "admin" THEN "admin"
                                      ELSE users[i].password
                        /\ (users[i].id # "admin" /\ users[i].password = Undefined)
                               => ~ret.result.success
                   ELSE ret.result = Failure("Login method not applicable for this user type here.")

AdminsWithId(users, userId) ==
    {i \in DOMAIN users : users[i].id = userId /\ users[i].role = "admin"}

\* C17: updateAdminDetails fails and leaves the users as they were when no
\* admin has that id; otherwise it sets the name when a non-empty one is given
\* and the password when a non-empty one is given, and nothing else.  After a
\* new password was set for an admin other than "admin", loginUser accepts
\* that password only; for id "admin" it accepts exactly "admin" in every
\* state.
C17_UpdateAdminDetails ==
    LET users == UsersView
    IN  /\ \A p \in Passwords \cup {""} :
               loginUser(usersFile, "admin", p).result.success <=> p = "admin"
        /\ ret.op = "updateAdminDetails" =>
               LET before == ret.before
                   found == AdminsWithId(before, ret.userId)
                   named == ret.name # ""
                   keyed == ret.newPassword # Undefined /\ ret.newPassword # ""
               IN  /\ found = {} =>
                          /\ ret.result = Failure("Admin user not found.")
                          /\ users = before
                   /\ found # {} =>
                          /\ ret.result.success
                          /\ \E i \in found :
                                 users = [before EXCEPT
                                     ![i].name = IF named THEN ret.name ELSE @,
                                     ![i].password =
                                         IF keyed THEN ret.newPassword ELSE @]
                   /\ (found # {} /\ keyed /\ ret.userId # "admin") =>
                          \A p \in Passwords \cup {""} :
                              loginUser(usersFile, ret.userId, p).result.success
                                  <=> p = ret.newPassword

C17_Witness ==
    /\ ret.op = "updateAdminDetails"
    /\ ret.result.success
    /\ ret.userId = "adm001"
    /\ ret.name = ""
    /\ ret.newPassword = "secret"
    /\ \E i \in AdminsWithId(UsersView, "adm001") :
           /\ UsersView[i].name = "Bob Johnson (Admin)"
           /\ UsersView[i].password = "secret"
    /\ loginUser(usersFile, "adm001", "secret").result.success
    /\ ~loginUser(usersFile, "adm001", Undefined).result.success

\* The operations of the user store that return a result with a success flag
ResultOps ==
    {"fetchUserDetails", "loginUser", "generateAndStoreOTP", "verifyOtp",
     "addUser", "deleteUser", "updateAdminDetails", "revokeOTP"}

\* The failures the user store reports
DomainErrors ==
    {"User not found",
     "Invalid credentials for this admin user.",
     "Login method not applicable for this user type here.",
     "Failed to generate OTP. User not found or not an employee.",
     "No active OTP found for this user. Please generate one.",
     "OTP has expired. Please generate a new one.",
     "Invalid OTP",
     "User with this ID already exists.",
     "The default '${userIdToDelete}' account cannot be deleted.",
     "User not found.",
     "Admin user not found.",
     "User not found or not an employee."}

\* C19: a call of the user store that fails returns success = false with an
\* error and nothing else, and leaves a users file that exists as it was;
\* the calls the claim lists do fail.
C19_FailureChangesNothing ==
    [][ (ret' # ret /\ ret'.op \in ResultOps) =>
            LET before == loadUsersFromFile(usersFile).users
                id == ret'.userId
            IN  /\ ~ret'.result.success =>
                       /\ DOMAIN ret'.result = {"success", "error"}
                       /\ ret'.result.error \in DomainErrors
                       /\ usersFile.exists => usersFile' = usersFile
                       /\ loadUsersFromFile(usersFile').users = before
                /\ (/\ ret'.op = "addUser"
                    /\ \E i \in DOMAIN before :
                           toLowerCase(before[i].id) = toLowerCase(id))
                       => ~ret'.result.success
                /\ (/\ ret'.op = "deleteUser"
                    /\ id \in {"admin", "employee"} \/ UsersWithId(before, id) = {})
                       => ~ret'.result.success
                /\ (/\ ret'.op \in {"generateAndStoreOTP", "revokeOTP"}
                    /\ EmployeesWithId(before, id) = {})
                       => ~ret'.result.success
                /\ (/\ ret'.op = "updateAdminDetails"
                    /\ AdminsWithId(before, id) = {})
                       => ~ret'.result.success ]_vars

\* A verifyOtp that fails because the OTP has expired, in a store that holds
\* a user added by addUser
C19_Witness ==
    /\ ret.op = "verifyOtp"
    /\ ret.result = Failure("OTP has expired. Please generate a new one.")
    /\ usersFile.exists
    /\ Len(UsersView) = 5
    /\ UsersView = ret.before

\* C20: no employee has a password, in the list the operations load and in
\* the file: addUser gives the password to an admin only and
\* updateAdminDetails changes no employee.
C20_EmployeesHaveNoPassword ==
    LET users == UsersView
    IN  /\ \A i \in DOMAIN users :
               users[i].role = "employee" => users[i].password = Undefined
        /\ \A i \in DOMAIN usersFile.data :
               usersFile.data[i].role = "employee"
                   => usersFile.data[i].password = Undefined
        /\ (ret.op = "addUser" /\ ret.result.success) =>
               users = Append(ret.before,
                              User(ret.userId, "New User", ret.role,
                                   IF ret.role = "admin" THEN "secret"
                                   ELSE Undefined))
        /\ ret.op = "updateAdminDetails" =>
               \A i \in DOMAIN ret.before :
                   ret.before[i].role = "employee" => users[i] = ret.before[i]

\* An employee was added, and updateAdminDetails was then called with its id
\* and a new password
C20_Witness ==
    /\ ret.op = "updateAdminDetails"
    /\ ret.newPassword = "secret"
    /\ ret.userId = "emp002"
    /\ \E i \in EmployeesWithId(UsersView, "emp002") :
           UsersView[i].password = Undefined

\* Call a saved first and call b, on another user, read the users before a
\* had finished and saved after it; both have returned
SavedOver(a, b) ==
    /\ a # b
    /\ AllDone
    /\ calls[a].pending.saved
    /\ calls[b].pending.saved
    /\ calls[b].savedLast
    /\ calls[b].early
    /\ calls[a].userId # calls[b].userId

\* C23: when two writing calls on different users overlap, the one that
\* saves last writes back the users it loaded: a generateAndStoreOTP that
\* saved first has returned success with a code, yet its user has no OTP in
\* the store and verifyOtp with that code fails at once with the
\* no-active-OTP failure; a deleteUser that saved first has returned success,
\* yet its user is in the store.
C23_LastSaveWritesBackItsLoad ==
    \A a, b \in Callers :
        SavedOver(a, b) =>
            /\ usersFile = calls[b].pending.file
            /\ calls[a].pending.result.success
            /\ calls[a].op = "generateAndStoreOTP" =>
                   /\ calls[a].pending.result.otp = RaceOtp(a)
                   /\ \A i \in EmployeesWithId(UsersView, calls[a].userId) :
                          ~HasOtp(UsersView[i])
                   /\ verifyOtp(usersFile, calls[a].userId, RaceOtp(a), now).result
                          = NoActiveOtp
            /\ calls[a].op = "deleteUser" =>
                   calls[a].userId \in Ids(UsersView)

\* generateAndStoreOTP for emp001 returned success, addUser of emp002 saved
\* over it, and emp001 has no OTP
C23_Witness ==
    \E a, b \in Callers :
        /\ SavedOver(a, b)
        /\ calls[a].op = "generateAndStoreOTP"
        /\ calls[a].userId = "emp001"
        /\ calls[a].pending.result.success
        /\ calls[b].op = "addUser"
        /\ "emp002" \in Ids(UsersView)
        /\ ~verifyOtp(usersFile, "emp001", RaceOtp(a), now).result.success

\* deleteUser of adm001 returned success, another call saved over it, and
\* adm001 is in the store
DeletedUserIsBack ==
    \E a, b \in Callers :
        /\ SavedOver(a, b)
        /\ calls[a].op = "deleteUser"
        /\ calls[a].pending.result.success
        /\ "adm001" \in Ids(UsersView)

====
